---------------------------- MODULE Spec2Model ----------------------------
(***************************************************************************)
(* Model of examples/1_basic_plot_making/4_materials_and_glass_colors.ipynb *)
(*                                                                         *)
(* The notebook is a script of code cells run by one kernel (the scripting *)
(* thread) against one TkOptiX renderer object, while the GUI window runs  *)
(* concurrently and can be closed from its "x" at any time.  A statement   *)
(* is named by the source line it starts at (L73 is line 73), a cell by    *)
(* its index in the notebook's cell list (cell 5 holds lines 73-76).       *)
(*                                                                         *)
(* Numbers.  Floats are kept as integers: lengths derived from the grid    *)
(* step s = a / n are in units of s/10 (0.4*s is 4, 0.5*s is 5, a grid     *)
(* coordinate i*s is 10*i); every other float is in hundredths (1.44 is    *)
(* 144, 2.2 is 220, rnd in [0,1) is 0..99).                                *)
(***************************************************************************)
EXTENDS Integers, Sequences, FiniteSets, TLC

\* ------------------------------------------------------------------ bounds

\* The grid of cell 3 has n^3 points; the random draw is modelled on the
\* first MaxPts points of a sample of it (see SampleIndex).
MaxPts == 2

\* Cells re-run by the user after start() (SpecRerun).
MaxRuns == 2

\* ------------------------------------------------------- cell 3: the data

n == 6

a == 8

\* Values of one draw of np.random.uniform(0, 1), in hundredths: one below
\* each threshold of lines 50-57, each threshold, one above.
RndVals == {39, 40, 70, 90, 91}

\* Flat index (C order) of the k-th sampled row of xyz, k = 1..MaxPts.
SampleIndex(k) == ((k - 1) * 50) % (n * n * n)

\* np.mgrid[0:a:s, 0:a:s, 0:a:s].reshape(3,-1).T : row p is
\* (i*s, j*s, k*s) with p = i*n*n + j*n + k; in units of s/10.
GridRow(p) == << 10 * (p \div (n * n)), 10 * ((p \div n) % n), 10 * (p % n) >>

Rows == 1 .. MaxPts

OnWall(row) == row[1] = 0 \/ row[2] = 0 \/ row[3] = 0

Inside(row) == row[1] > 0 /\ row[2] > 0 /\ row[3] > 0

\* xyz[mask]: the rows of xs whose mask is true, in order.
RECURSIVE Masked(_, _, _)
Masked(xs, mask, k) ==
    IF k > Len(xs) THEN << >>
    ELSE (IF mask[k] THEN << xs[k] >> ELSE << >>) \o Masked(xs, mask, k + 1)

\* xs + np.array([0.5*s, 0.5*s, 0.5*s])
Shifted(xs) == [k \in DOMAIN xs |-> << xs[k][1] + 5, xs[k][2] + 5, xs[k][3] + 5 >>]

\* xs[:,1]
Column1(xs) == [k \in DOMAIN xs |-> xs[k][2]]

\* 0.5 * ys (grid coordinates are multiples of 10)
Halved(ys) == [k \in DOMAIN ys |-> ys[k] \div 2]

\* ------------------------------------------------------------- the cells

\* Mutant: optix.start() (cell 18) placed before the lights (cell 16).
RunAll_StartEarly == << 1, 3, 5, 7, 9, 11, 13, 15, 18, 16, 20, 22, 24, 26, 28, 30, 32 >>

\* The code cells in notebook order.
RunAll == << 1, 3, 5, 7, 9, 11, 13, 15, 16, 18, 20, 22, 24, 26, 28, 30, 32 >>

\* The cells up to optix.start().
SetupCells == SubSeq(RunAll, 1, 10)

\* The cells after start() that "you can run multiple times".
RerunCells == {20, 22, 24, 26, 28, 30}

\* The statements of a cell, by first source line.
Lines(c) ==
    CASE c = 1  -> << 24 >>
      [] c = 3  -> << 43 >>
      [] c = 5  -> << 73, 74 >>
      [] c = 7  -> << 94 >>
      [] c = 9  -> << 110, 111, 112 >>
      [] c = 11 -> << 130, 134, 139, 144 >>
      [] c = 13 -> << 162, 163, 164 >>
      [] c = 15 -> << 180, 181, 183 >>
      [] c = 16 -> << 193, 194, 195 >>
      [] c = 18 -> << 213 >>
      [] c = 20 -> << 244 >>
      [] c = 22 -> << 260, 261 >>
      [] c = 24 -> << 277 >>
      [] c = 26 -> << 293 >>
      [] c = 28 -> << 309, 310 >>
      [] c = 30 -> << 326 >>
      [] c = 32 -> << 343 >>

Cells == {RunAll[i] : i \in DOMAIN RunAll}

CellOf(line) == CHOOSE c \in Cells : \E i \in DOMAIN Lines(c) : Lines(c)[i] = line

IsLast(line) == Lines(CellOf(line))[Len(Lines(CellOf(line)))] = line

\* The statement after `line` in its cell; 0 (kernel idle) after the last.
NextLine(line) ==
    LET ls == Lines(CellOf(line))
        i  == CHOOSE j \in DOMAIN ls : ls[j] = line
    IN  IF i = Len(ls) THEN 0 ELSE ls[i + 1]

\* ------------------------------------------------------------------ state

VARIABLES
    pc,             \* line of the statement the kernel runs next; 0: idle
    queue,          \* cells submitted to the kernel, not yet started
    done,           \* cells that have run to their end
    gui,            \* "not_started", "open", "closed_x", "closed"
    optix,          \* the notebook's name optix: id of the object it holds
    nobj,           \* TkOptiX objects constructed so far
    scene,          \* configuration held by the renderer object
    log,            \* calls received by the renderer, in order
    out,            \* what print() has shown, in order
    hist,           \* cells of RerunCells that ran, with the state they left
    rnd, xyz, xyz_c_diffuse, xyz_c_mirror, xyz_p_glass, xyz_p_plastic,
    m_clear_glass   \* plotoptix.materials.m_clear_glass (one shared dict)

data == << rnd, xyz, xyz_c_diffuse, xyz_c_mirror, xyz_p_glass, xyz_p_plastic >>

vars == << pc, queue, done, gui, optix, nobj, scene, log, out, hist, data,
           m_clear_glass >>

\* ----------------------------------------------- the renderer (TkOptiX)

Put(f, k, v) == (k :> v) @@ f

\* A new renderer: only "diffuse" exists, path segments range is 2..6.
NewScene ==
    [ param          |-> << >>,
      path_seg_range |-> << 2, 6 >>,
      float          |-> << >>,
      materials      |-> ("diffuse" :> [id |-> "diffuse"]),
      geoms          |-> << >>,
      cameras        |-> << >>,
      background     |-> -1,
      ambient        |-> -1,
      postproc       |-> << >>,
      lights         |-> << >> ]

SetParam(sc, kw) == [sc EXCEPT !.param = kw @@ sc.param]

SetUint(sc, name, lo, hi) == [sc EXCEPT !.path_seg_range = << lo, hi >>]

SetFloat(sc, name, v) == [sc EXCEPT !.float = Put(sc.float, name, v)]

SetupMaterial(sc, name, mat) == [sc EXCEPT !.materials = Put(sc.materials, name, mat)]

UpdateMaterial(sc, name, mat) == [sc EXCEPT !.materials = Put(sc.materials, name, mat)]

SetData(sc, name, kw) == [sc EXCEPT !.geoms = Put(sc.geoms, name, kw)]

\* Only the arguments given are replaced.
UpdateData(sc, name, kw) ==
    IF name \in DOMAIN sc.geoms
    THEN [sc EXCEPT !.geoms = Put(sc.geoms, name, kw @@ sc.geoms[name])]
    ELSE sc

SetupCamera(sc, name, kw) == [sc EXCEPT !.cameras = Put(sc.cameras, name, kw)]

SetBackground(sc, v) == [sc EXCEPT !.background = v]

SetAmbient(sc, v) == [sc EXCEPT !.ambient = v]

AddPostproc(sc, stage) == [sc EXCEPT !.postproc = Append(sc.postproc, stage)]

SetupLight(sc, name, kw) == [sc EXCEPT !.lights = Put(sc.lights, name, kw)]

\* Only the arguments given are replaced.
UpdateLight(sc, name, kw) ==
    IF name \in DOMAIN sc.lights
    THEN [sc EXCEPT !.lights = Put(sc.lights, name, kw @@ sc.lights[name])]
    ELSE sc

\* ------------------------------------------------------ initial states

\* m_clear_glass as plotoptix.materials defines it (the output of cell 20).
ClearGlass ==
    [ id               |-> "m_clear_glass",
      flags            |-> 12,
      radiation_length |-> 0,
      vol_scattering   |-> 100,
      light_emission   |-> 0,
      refraction_index |-> << 140, 140, 140 >>,
      surface_albedo   |-> << 100, 100, 100 >> ]

InitCommon ==
    /\ pc = 0
    /\ done = {}
    /\ gui = "not_started"
    /\ optix = 0
    /\ nobj = 0
    /\ scene = NewScene
    /\ log = << >>
    /\ out = << >>
    /\ hist = << >>
    /\ rnd = << >>
    /\ xyz = << >>
    /\ xyz_c_diffuse = << >>
    /\ xyz_c_mirror = << >>
    /\ xyz_p_glass = << >>
    /\ xyz_p_plastic = << >>
    /\ m_clear_glass = ClearGlass

\* "Run All": every code cell is queued, top to bottom.
Init == InitCommon /\ queue = RunAll

\* The setup cells are run top to bottom; the user runs the rest by hand.
InitRerun == InitCommon /\ queue = SetupCells

\* ------------------------------------------------------- the kernel

At(line) == pc = line

\* A call as the renderer receives it: args are the arguments as written
\* (an array argument by its expression), arrays the array contents, gui
\* the state of the window when the call arrives.
Entry(op, name, args, arrays) ==
    [ op |-> op, obj |-> optix, name |-> name, args |-> args,
      arrays |-> arrays, gui |-> gui ]

\* What the cells after start() can change: the scene settings they write
\* and the notebook's variables.
Snapshot ==
    [ refraction_index |-> scene.materials["glass"].refraction_index,
      particles_g_c    |-> scene.geoms["particles_g"].c,
      light1           |-> scene.lights["light1"],
      light2           |-> scene.lights["light2"],
      path_seg_range   |-> scene.path_seg_range,
      m_clear_glass    |-> m_clear_glass,
      data             |-> data ]

\* The statement at `line` is over: go to the next one of the cell, or idle.
Finish(line) ==
    /\ pc' = NextLine(line)
    /\ done' = IF IsLast(line) THEN done \cup {CellOf(line)} ELSE done
    /\ hist' = IF IsLast(line) /\ CellOf(line) \in RerunCells
               THEN Append(hist, [cell |-> CellOf(line), after |-> Snapshot'])
               ELSE hist

\* The kernel starts the next queued cell.
Dispatch ==
    /\ pc = 0
    /\ queue # << >>
    /\ pc' = Lines(Head(queue))[1]
    /\ queue' = Tail(queue)
    /\ UNCHANGED << done, gui, optix, nobj, scene, log, out, hist, data,
                    m_clear_glass >>

\* A statement that is one call on optix.
RendererCall(line, op, name, args, arrays, newScene) ==
    /\ At(line)
    /\ log' = Append(log, Entry(op, name, args, arrays))
    /\ scene' = newScene
    /\ UNCHANGED << queue, gui, optix, nobj, out, data, m_clear_glass >>
    /\ Finish(line)

\* ---------------------------------------------------- cells 1 to 18

\* cell 1: the imports.
L24 ==
    /\ At(24)
    /\ UNCHANGED << queue, gui, optix, nobj, scene, log, out, data,
                    m_clear_glass >>
    /\ Finish(24)

\* cell 3: the grid, the random draw and the four point sets (lines 43-57).
L43 ==
    /\ At(43)
    /\ \E r \in [Rows -> RndVals] :
         LET g == [k \in Rows |-> GridRow(SampleIndex(k))] IN
         /\ rnd' = r
         /\ xyz' = g
         /\ xyz_c_diffuse' = Masked(g, [k \in Rows |-> OnWall(g[k]) /\ r[k] < 70], 1)
         /\ xyz_c_mirror'  = Masked(g, [k \in Rows |-> OnWall(g[k]) /\ r[k] >= 70], 1)
         /\ xyz_p_glass'   = Masked(g, [k \in Rows |-> Inside(g[k]) /\ r[k] < 40], 1)
         /\ xyz_p_plastic' = Masked(g, [k \in Rows |-> Inside(g[k]) /\ r[k] > 90], 1)
    /\ UNCHANGED << queue, gui, optix, nobj, scene, log, out, m_clear_glass >>
    /\ Finish(43)

\* optix = TkOptiX(start_now=...)
Construct(line, start_now) ==
    /\ At(line)
    /\ nobj' = nobj + 1
    /\ optix' = nobj + 1
    /\ scene' = NewScene
    /\ gui' = IF start_now THEN "open" ELSE "not_started"
    /\ log' = Append(log, [ op |-> "TkOptiX", obj |-> nobj + 1, name |-> "",
                            args |-> [start_now |-> start_now],
                            arrays |-> << >>, gui |-> gui ])
    /\ UNCHANGED << queue, out, data, m_clear_glass >>
    /\ Finish(line)

L73 == Construct(73, FALSE)

L74 ==
    LET kw == [ min_accumulation_step |-> 4, max_accumulation_frames |-> 500,
                light_shading |-> "Hard" ]
    IN  RendererCall(74, "set_param", "", kw, << >>, SetParam(scene, kw))

L94 ==
    RendererCall(94, "set_uint", "path_seg_range", [lo |-> 15, hi |-> 30], << >>,
                 SetUint(scene, "path_seg_range", 15, 30))

L110 ==
    RendererCall(110, "setup_material", "glass", [mat |-> m_clear_glass], << >>,
                 SetupMaterial(scene, "glass", m_clear_glass))

L111 ==
    RendererCall(111, "setup_material", "plastic", [mat |-> [id |-> "m_plastic"]], << >>,
                 SetupMaterial(scene, "plastic", [id |-> "m_plastic"]))

\* Mutant: the mirror material registered under a misspelt name.
L112_Typo ==
    RendererCall(112, "setup_material", "miror", [mat |-> [id |-> "m_mirror"]], << >>,
                 SetupMaterial(scene, "miror", [id |-> "m_mirror"]))

L112 ==
    RendererCall(112, "setup_material", "mirror", [mat |-> [id |-> "m_mirror"]], << >>,
                 SetupMaterial(scene, "mirror", [id |-> "m_mirror"]))

\* A colour argument: a number, an array, or a colour-mapped array.
Scalar(v) == [kind |-> "scalar", data |-> << v >>]

Array(xs) == [kind |-> "array", data |-> xs]

\* 10 * map_to_colors(xs, cm): the colour map itself is not interpreted.
MapToColors10(xs, cm) == [kind |-> cm, data |-> xs]

\* Mutant: set_data is skipped when the point set is empty.
L130_SkipEmpty ==
    IF xyz_p_glass = << >>
    THEN /\ At(130)
         /\ UNCHANGED << queue, gui, optix, nobj, scene, log, out, data,
                         m_clear_glass >>
         /\ Finish(130)
    ELSE LET pos == Shifted(xyz_p_glass) IN
         RendererCall(130, "set_data", "particles_g",
                      [ pos |-> "xyz_p_glass + 0.5*s", r |-> 4, geom |-> "ParticleSet",
                        mat |-> "glass", c |-> 1000 ],
                      [ pos |-> pos ],
                      SetData(scene, "particles_g",
                              [ pos |-> pos, r |-> 4, geom |-> "ParticleSet",
                                mat |-> "glass", c |-> Scalar(1000) ]))

L130 ==
    LET pos == Shifted(xyz_p_glass) IN
    RendererCall(130, "set_data", "particles_g",
                 [ pos |-> "xyz_p_glass + 0.5*s", r |-> 4, geom |-> "ParticleSet",
                   mat |-> "glass", c |-> 1000 ],
                 [ pos |-> pos ],
                 SetData(scene, "particles_g",
                         [ pos |-> pos, r |-> 4, geom |-> "ParticleSet",
                           mat |-> "glass", c |-> Scalar(1000) ]))

L134 ==
    LET pos == Shifted(xyz_p_plastic) IN
    RendererCall(134, "set_data", "particles_p",
                 [ pos |-> "xyz_p_plastic + 0.5*s", r |-> 4, geom |-> "ParticleSet",
                   mat |-> "plastic", c |-> 95 ],
                 [ pos |-> pos ],
                 SetData(scene, "particles_p",
                         [ pos |-> pos, r |-> 4, geom |-> "ParticleSet",
                           mat |-> "plastic", c |-> Scalar(95) ]))

L139 ==
    RendererCall(139, "set_data", "cubes_d",
                 [ pos |-> "xyz_c_diffuse", u |-> << 9, 0, 0 >>, v |-> << 0, 9, 0 >>,
                   w |-> << 0, 0, 9 >>, geom |-> "Parallelepipeds",
                   mat |-> "diffuse", c |-> 95 ],
                 [ pos |-> xyz_c_diffuse ],
                 SetData(scene, "cubes_d",
                         [ pos |-> xyz_c_diffuse, u |-> << 9, 0, 0 >>,
                           v |-> << 0, 9, 0 >>, w |-> << 0, 0, 9 >>,
                           geom |-> "Parallelepipeds", mat |-> "diffuse",
                           c |-> Scalar(95) ]))

L144 ==
    RendererCall(144, "set_data", "cubes_m",
                 [ pos |-> "xyz_c_mirror", u |-> << 9, 0, 0 >>, v |-> << 0, 9, 0 >>,
                   w |-> << 0, 0, 9 >>, geom |-> "Parallelepipeds",
                   mat |-> "mirror" ],
                 [ pos |-> xyz_c_mirror ],
                 SetData(scene, "cubes_m",
                         [ pos |-> xyz_c_mirror, u |-> << 9, 0, 0 >>,
                           v |-> << 0, 9, 0 >>, w |-> << 0, 0, 9 >>,
                           geom |-> "Parallelepipeds", mat |-> "mirror" ]))

\* target = [0.5*a, 0.4*a, 0.5*a]
L162 ==
    LET kw == [ eye |-> << 2000, 1000, 1000 >>,
                target |-> << 50 * a, 40 * a, 50 * a >>, fov |-> 3500 ]
    IN  RendererCall(162, "setup_camera", "cam1", kw, << >>,
                     SetupCamera(scene, "cam1", kw))

L163 ==
    RendererCall(163, "set_background", "", [v |-> 0], << >>, SetBackground(scene, 0))

L164 ==
    RendererCall(164, "set_ambient", "", [v |-> 0], << >>, SetAmbient(scene, 0))

L180 ==
    RendererCall(180, "set_float", "tonemap_exposure", [v |-> 50], << >>,
                 SetFloat(scene, "tonemap_exposure", 50))

L181 ==
    RendererCall(181, "set_float", "tonemap_gamma", [v |-> 220], << >>,
                 SetFloat(scene, "tonemap_gamma", 220))

\* Mutant: line 184 is not a comment, both stages are added.
L183_Both ==
    /\ At(183)
    /\ log' = log \o << Entry("add_postproc", "Gamma", << >>, << >>),
                        Entry("add_postproc", "Denoiser", << >>, << >>) >>
    /\ scene' = AddPostproc(AddPostproc(scene, "Gamma"), "Denoiser")
    /\ UNCHANGED << queue, gui, optix, nobj, out, data, m_clear_glass >>
    /\ Finish(183)

\* add_postproc("Gamma"); line 184, add_postproc("Denoiser"), is a comment.
L183 ==
    RendererCall(183, "add_postproc", "Gamma", << >>, << >>,
                 AddPostproc(scene, "Gamma"))

L193 ==
    LET kw == [ pos |-> << 500, 2000, 500 >>, color |-> << 1000, 970, 700 >>,
                radius |-> 400 ]
    IN  RendererCall(193, "setup_light", "light1", kw, << >>,
                     SetupLight(scene, "light1", kw))

L194 ==
    LET kw == [ pos |-> << 700, 700, 2000 >>, color |-> << 1050, 1275, 1500 >>,
                radius |-> 300 ]
    IN  RendererCall(194, "setup_light", "light2", kw, << >>,
                     SetupLight(scene, "light2", kw))

L195 ==
    LET kw == [ pos |-> << 1500, 200, 200 >>, color |-> << 1500 >>, radius |-> 100 ]
    IN  RendererCall(195, "setup_light", "light3", kw, << >>,
                     SetupLight(scene, "light3", kw))

\* optix.start(): the window opens.
Start(line) ==
    /\ At(line)
    /\ log' = Append(log, Entry("start", "", << >>, << >>))
    /\ gui' = "open"
    /\ UNCHANGED << queue, optix, nobj, scene, out, data, m_clear_glass >>
    /\ Finish(line)

\* Mutant: cell 18 runs without calling optix.start().
L213_NoStart ==
    /\ At(213)
    /\ UNCHANGED << queue, gui, optix, nobj, scene, log, out, data, m_clear_glass >>
    /\ Finish(213)

L213 == Start(213)

\* ---------------------------------------------------- cells 20 to 32

\* print(m_clear_glass)
L244 ==
    /\ At(244)
    /\ out' = Append(out, [text |-> m_clear_glass, at |-> Len(log)])
    /\ UNCHANGED << queue, gui, optix, nobj, scene, log, data, m_clear_glass >>
    /\ Finish(244)

\* Mutant: the refraction index is raised by [0, 0.04, 0.1] on every run.
L260_Accumulate ==
    /\ At(260)
    /\ m_clear_glass' =
         [m_clear_glass EXCEPT !.refraction_index =
            << @[1], @[2] + 4, @[3] + 10 >>]
    /\ UNCHANGED << queue, gui, optix, nobj, scene, log, out, data >>
    /\ Finish(260)

\* Mutant: the new refraction index goes to a copy, m_clear_glass is kept.
L260_Copy ==
    /\ At(260)
    /\ UNCHANGED << queue, gui, optix, nobj, scene, log, out, data, m_clear_glass >>
    /\ Finish(260)

\* m_clear_glass["VarFloat3"]["refraction_index"] = [1.4, 1.44, 1.5]
L260 ==
    /\ At(260)
    /\ m_clear_glass' = [m_clear_glass EXCEPT !.refraction_index = << 140, 144, 150 >>]
    /\ UNCHANGED << queue, gui, optix, nobj, scene, log, out, data >>
    /\ Finish(260)

L261 ==
    RendererCall(261, "update_material", "glass",
                 [mat |-> m_clear_glass, refresh |-> TRUE], << >>,
                 UpdateMaterial(scene, "glass", m_clear_glass))

L277 ==
    LET c == Halved(Column1(xyz_p_glass)) IN
    RendererCall(277, "update_data", "particles_g",
                 [c |-> "0.5 * xyz_p_glass[:,1]"], [c |-> c],
                 UpdateData(scene, "particles_g", [c |-> Array(c)]))

L293 ==
    LET c == MapToColors10(Column1(xyz_p_glass), "jet") IN
    RendererCall(293, "update_data", "particles_g",
                 [c |-> "10 * map_to_colors(xyz_p_glass[:,1], jet)"], [c |-> c.data],
                 UpdateData(scene, "particles_g", [c |-> c]))

L309 ==
    LET kw == [color |-> << 90, 70, 0 >>, radius |-> 700] IN
    RendererCall(309, "update_light", "light1", kw, << >>,
                 UpdateLight(scene, "light1", kw))

L310 ==
    LET kw == [ pos |-> << 1500, 1500, 1500 >>, color |-> << 200, 500, 1000 >>,
                radius |-> 300 ]
    IN  RendererCall(310, "update_light", "light2", kw, << >>,
                     UpdateLight(scene, "light2", kw))

L326 ==
    RendererCall(326, "set_uint", "path_seg_range",
                 [lo |-> 2, hi |-> 4, refresh |-> TRUE], << >>,
                 SetUint(scene, "path_seg_range", 2, 4))

\* optix.close(): the window closes, if it is still there.
Close(line) ==
    /\ At(line)
    /\ log' = Append(log, Entry("close", "", << >>, << >>))
    /\ gui' = IF gui = "open" THEN "closed" ELSE gui
    /\ UNCHANGED << queue, optix, nobj, scene, out, data, m_clear_glass >>
    /\ Finish(line)

L343 == Close(343)

\* ------------------------------------------------------------ the user

\* The "x" of the window: the GUI thread closes it, whatever the kernel does.
WindowX ==
    /\ gui = "open"
    /\ gui' = "closed_x"
    /\ UNCHANGED << pc, queue, done, optix, nobj, scene, log, out, hist, data,
                    m_clear_glass >>

\* The user runs a cell by hand, as cell 19 tells: one of the cells below
\* start(), once the kernel is idle, after cell 18 and before closing the GUI.
RunCell(c) ==
    /\ pc = 0
    /\ queue = << >>
    /\ 18 \in done
    /\ 32 \notin done
    /\ gui # "closed_x"
    /\ Len(hist) < MaxRuns
    /\ queue' = << c >>
    /\ UNCHANGED << pc, done, gui, optix, nobj, scene, log, out, hist, data,
                    m_clear_glass >>

\* The user runs cell 32, once.
RunClose ==
    /\ pc = 0
    /\ queue = << >>
    /\ 18 \in done
    /\ 32 \notin done
    /\ queue' = << 32 >>
    /\ UNCHANGED << pc, done, gui, optix, nobj, scene, log, out, hist, data,
                    m_clear_glass >>

\* ------------------------------------------------------- specifications

Setup ==
    \/ L24 \/ L43 \/ L73 \/ L74 \/ L94 \/ L110 \/ L111 \/ L112
    \/ L130 \/ L134 \/ L139 \/ L144 \/ L162 \/ L163 \/ L164
    \/ L180 \/ L181 \/ L183 \/ L193 \/ L194 \/ L195 \/ L213

Updates ==
    \/ L244 \/ L260 \/ L261 \/ L277 \/ L293 \/ L309 \/ L310 \/ L326 \/ L343

Next == Dispatch \/ Setup \/ Updates \/ WindowX

\* A top-to-bottom run of the notebook.
Spec == Init /\ [][Next]_vars

NextRerun ==
    \/ Next
    \/ \E c \in RerunCells : RunCell(c)
    \/ RunClose

\* Setup top to bottom, then cells re-run by hand in any order.
SpecRerun == InitRerun /\ [][NextRerun]_vars

\* ------------------------------------------------------------ the claims

Calls(op) == {i \in DOMAIN log : log[i].op = op}

CallsBefore(op, i) == {j \in Calls(op) : j < i}

RunOver == pc = 0 /\ queue = << >> /\ 32 \in done

SetupOps ==
    { "set_param", "setup_material", "set_data", "setup_camera", "set_background",
      "set_ambient", "set_float", "add_postproc", "setup_light" }

\* A configuration call of the setup phase; set_uint is one without refresh.
IsSetupCall(e) ==
    \/ e.op \in SetupOps
    \/ e.op = "set_uint" /\ "refresh" \notin DOMAIN e.args

\* An update call; set_uint is one with refresh=True.
IsUpdateCall(e) ==
    \/ e.op \in {"update_material", "update_data", "update_light"}
    \/ e.op = "set_uint" /\ "refresh" \in DOMAIN e.args

\* C1: in a top-to-bottom run the renderer is created with its window closed
\* (start_now=False) and the window stays closed until start(); start() is
\* called at most once, exactly once when the run is over, and only after all
\* 18 configuration calls of the setup phase (set_param, set_uint,
\* setup_material x3, set_data x4, setup_camera, set_background, set_ambient,
\* set_float x2, add_postproc, setup_light x3); no configuration call of the
\* setup phase follows start().
C1_StartAfterSetup ==
    /\ log # << >> =>
         /\ log[1].op = "TkOptiX"
         /\ log[1].args.start_now = FALSE
    /\ Calls("start") = {} => gui = "not_started"
    /\ Cardinality(Calls("start")) <= 1
    /\ RunOver => Cardinality(Calls("start")) = 1
    /\ \A i \in Calls("start") :
         /\ Cardinality(CallsBefore("set_param", i)) = 1
         /\ Cardinality({j \in CallsBefore("set_uint", i) : IsSetupCall(log[j])}) = 1
         /\ Cardinality(CallsBefore("setup_material", i)) = 3
         /\ Cardinality(CallsBefore("set_data", i)) = 4
         /\ Cardinality(CallsBefore("setup_camera", i)) = 1
         /\ Cardinality(CallsBefore("set_background", i)) = 1
         /\ Cardinality(CallsBefore("set_ambient", i)) = 1
         /\ Cardinality(CallsBefore("set_float", i)) = 2
         /\ Cardinality(CallsBefore("add_postproc", i)) = 1
         /\ Cardinality(CallsBefore("setup_light", i)) = 3
         /\ \A j \in DOMAIN log : j > i => ~IsSetupCall(log[j])

C1_Witness == RunOver /\ Calls("start") # {} /\ Len(log) > 20

\* C3: every set_data call names a material that is "diffuse" or was
\* registered by an earlier setup_material call on the same renderer, and
\* the renderer holds exactly "diffuse" and the materials set up so far.
C3_MaterialConfigured ==
    /\ \A i \in Calls("set_data") :
         \/ log[i].args.mat = "diffuse"
         \/ \E j \in CallsBefore("setup_material", i) :
              log[j].name = log[i].args.mat /\ log[j].obj = log[i].obj
    /\ nobj > 0 =>
         DOMAIN scene.materials =
           {"diffuse"} \cup {log[j].name : j \in Calls("setup_material")}

C3_Witness ==
    /\ Cardinality(Calls("set_data")) = 4
    /\ {log[i].args.mat : i \in Calls("set_data")} = {"glass", "plastic", "diffuse", "mirror"}

Stages == {scene.postproc[i] : i \in DOMAIN scene.postproc}

\* C6: the renderer's post-processing stages never hold both "Gamma" and
\* "Denoiser"; in a top-to-bottom run the list is empty until
\* add_postproc("Gamma") and the single stage "Gamma" from then on, and that
\* call comes after tonemap_exposure and tonemap_gamma are set and before
\* start().
C6_GammaOnly ==
    /\ ~("Gamma" \in Stages /\ "Denoiser" \in Stages)
    /\ scene.postproc = IF Calls("add_postproc") = {} THEN << >> ELSE << "Gamma" >>
    /\ Calls("start") # {} => scene.postproc = << "Gamma" >>
    /\ \A i \in Calls("add_postproc") :
         /\ log[i].name = "Gamma"
         /\ \E j \in CallsBefore("set_float", i) : log[j].name = "tonemap_exposure"
         /\ \E j \in CallsBefore("set_float", i) : log[j].name = "tonemap_gamma"
         /\ CallsBefore("start", i) = {}

C6_Witness == RunOver /\ scene.postproc = << "Gamma" >>

\* A call without the contents of its array arguments.
Strip(e) == [op |-> e.op, name |-> e.name, args |-> e.args]

Cubes(pos, mat) ==
    [ pos |-> pos, u |-> << 9, 0, 0 >>, v |-> << 0, 9, 0 >>, w |-> << 0, 0, 9 >>,
      geom |-> "Parallelepipeds", mat |-> mat ]

\* The calls of a top-to-bottom run, as the notebook writes them.
ExpectedCalls ==
    << [op |-> "TkOptiX", name |-> "", args |-> [start_now |-> FALSE]],
       [op |-> "set_param", name |-> "",
        args |-> [ min_accumulation_step |-> 4, max_accumulation_frames |-> 500,
                   light_shading |-> "Hard" ]],
       [op |-> "set_uint", name |-> "path_seg_range", args |-> [lo |-> 15, hi |-> 30]],
       [op |-> "setup_material", name |-> "glass", args |-> [mat |-> ClearGlass]],
       [op |-> "setup_material", name |-> "plastic", args |-> [mat |-> [id |-> "m_plastic"]]],
       [op |-> "setup_material", name |-> "mirror", args |-> [mat |-> [id |-> "m_mirror"]]],
       [op |-> "set_data", name |-> "particles_g",
        args |-> [ pos |-> "xyz_p_glass + 0.5*s", r |-> 4, geom |-> "ParticleSet",
                   mat |-> "glass", c |-> 1000 ]],
       [op |-> "set_data", name |-> "particles_p",
        args |-> [ pos |-> "xyz_p_plastic + 0.5*s", r |-> 4, geom |-> "ParticleSet",
                   mat |-> "plastic", c |-> 95 ]],
       [op |-> "set_data", name |-> "cubes_d",
        args |-> Cubes("xyz_c_diffuse", "diffuse") @@ [c |-> 95]],
       [op |-> "set_data", name |-> "cubes_m", args |-> Cubes("xyz_c_mirror", "mirror")],
       [op |-> "setup_camera", name |-> "cam1",
        args |-> [ eye |-> << 2000, 1000, 1000 >>, target |-> << 400, 320, 400 >>,
                   fov |-> 3500 ]],
       [op |-> "set_background", name |-> "", args |-> [v |-> 0]],
       [op |-> "set_ambient", name |-> "", args |-> [v |-> 0]],
       [op |-> "set_float", name |-> "tonemap_exposure", args |-> [v |-> 50]],
       [op |-> "set_float", name |-> "tonemap_gamma", args |-> [v |-> 220]],
       [op |-> "add_postproc", name |-> "Gamma", args |-> << >>],
       [op |-> "setup_light", name |-> "light1",
        args |-> [ pos |-> << 500, 2000, 500 >>, color |-> << 1000, 970, 700 >>,
                   radius |-> 400 ]],
       [op |-> "setup_light", name |-> "light2",
        args |-> [ pos |-> << 700, 700, 2000 >>, color |-> << 1050, 1275, 1500 >>,
                   radius |-> 300 ]],
       [op |-> "setup_light", name |-> "light3",
        args |-> [pos |-> << 1500, 200, 200 >>, color |-> << 1500 >>, radius |-> 100]],
       [op |-> "start", name |-> "", args |-> << >>],
       [op |-> "update_material", name |-> "glass",
        args |-> [ mat |-> [ClearGlass EXCEPT !.refraction_index = << 140, 144, 150 >>],
                   refresh |-> TRUE ]],
       [op |-> "update_data", name |-> "particles_g",
        args |-> [c |-> "0.5 * xyz_p_glass[:,1]"]],
       [op |-> "update_data", name |-> "particles_g",
        args |-> [c |-> "10 * map_to_colors(xyz_p_glass[:,1], jet)"]],
       [op |-> "update_light", name |-> "light1",
        args |-> [color |-> << 90, 70, 0 >>, radius |-> 700]],
       [op |-> "update_light", name |-> "light2",
        args |-> [ pos |-> << 1500, 1500, 1500 >>, color |-> << 200, 500, 1000 >>,
                   radius |-> 300 ]],
       [op |-> "set_uint", name |-> "path_seg_range",
        args |-> [lo |-> 2, hi |-> 4, refresh |-> TRUE]],
       [op |-> "close", name |-> "", args |-> << >>] >>

\* C7: a top-to-bottom run constructs the renderer once and makes every call
\* on that object; whatever rnd is drawn, also when a point set is empty,
\* the calls issued so far (operation, resource name and arguments, without
\* the contents of the arrays) are the first calls of one fixed sequence, and
\* a finished run has issued all of it, close() last.
C7_SameSequence ==
    /\ nobj <= 1
    /\ Cardinality(Calls("TkOptiX")) <= 1
    /\ \A i \in DOMAIN log : log[i].obj = 1
    /\ Len(log) <= Len(ExpectedCalls)
    /\ \A i \in DOMAIN log :
         /\ log[i].op = ExpectedCalls[i].op
         /\ log[i].name = ExpectedCalls[i].name
         /\ Strip(log[i]) = ExpectedCalls[i]
    /\ RunOver => Len(log) = Len(ExpectedCalls) /\ log[Len(log)].op = "close"

C7_Witness ==
    /\ RunOver
    /\ xyz_p_glass = << >>
    /\ xyz_c_mirror = << >>
    /\ log[Len(log)].op = "close"

\* C2 as claimed: every update call reaches the renderer with the GUI open.
C2_UpdatesWhileOpen ==
    \A i \in DOMAIN log : IsUpdateCall(log[i]) => log[i].gui = "open"

\* C2, amended: with the update cells run between cell 18 and cell 32, every
\* update call is issued after start() and before close(), and it reaches
\* the renderer with the GUI open unless the window's "x" has closed it.
C2_UpdatesAfterStart ==
    \A i \in DOMAIN log :
        IsUpdateCall(log[i]) =>
            /\ CallsBefore("start", i) # {}
            /\ CallsBefore("close", i) = {}
            /\ log[i].gui \in {"open", "closed_x"}

C2_Witness ==
    \E i, j \in DOMAIN log :
        /\ i < j
        /\ IsUpdateCall(log[i]) /\ log[i].gui = "open"
        /\ IsUpdateCall(log[j]) /\ log[j].gui = "closed_x"
        /\ Len(hist) = 2

\* The last of the first k re-run cells that is in `setters`; 0 if none.
LastRun(setters, k) ==
    LET ks == {j \in 1 .. k : hist[j].cell \in setters}
    IN  IF ks = {} THEN 0 ELSE CHOOSE j \in ks : \A m \in ks : m <= j

\* The settings after the first k re-run cells, each as its last writer
\* (or the setup phase) wrote it.
LastWritten(k) ==
    [ refraction_index |->
        IF LastRun({22}, k) = 0 THEN << 140, 140, 140 >> ELSE << 140, 144, 150 >>,
      particles_g_c |->
        IF LastRun({24, 26}, k) = 0 THEN [kind |-> "scalar", data |-> << 1000 >>]
        ELSE IF hist[LastRun({24, 26}, k)].cell = 24
             THEN [kind |-> "array", data |-> Halved(Column1(xyz_p_glass))]
             ELSE [kind |-> "jet", data |-> Column1(xyz_p_glass)],
      light1 |->
        IF LastRun({28}, k) = 0
        THEN [pos |-> << 500, 2000, 500 >>, color |-> << 1000, 970, 700 >>, radius |-> 400]
        ELSE [pos |-> << 500, 2000, 500 >>, color |-> << 90, 70, 0 >>, radius |-> 700],
      light2 |->
        IF LastRun({28}, k) = 0
        THEN [pos |-> << 700, 700, 2000 >>, color |-> << 1050, 1275, 1500 >>, radius |-> 300]
        ELSE [pos |-> << 1500, 1500, 1500 >>, color |-> << 200, 500, 1000 >>, radius |-> 300],
      path_seg_range |->
        IF LastRun({30}, k) = 0 THEN << 15, 30 >> ELSE << 2, 4 >> ]

\* C4: a cell of 22, 24, 26, 28, 30 run twice in succession leaves the scene
\* settings and the notebook's variables as its first run left them, and
\* after any sequence of re-runs each setting (glass refraction index,
\* particles_g colours, light1, light2, path_seg_range) is what the last-run
\* cell that sets it wrote, or what the setup wrote if none ran.
C4_RerunIdempotent ==
    /\ \A k \in DOMAIN hist :
         k > 1 /\ hist[k].cell = hist[k - 1].cell => hist[k].after = hist[k - 1].after
    /\ \A k \in DOMAIN hist :
         LET s == hist[k].after
             w == LastWritten(k)
         IN  /\ s.refraction_index = w.refraction_index
             /\ s.particles_g_c = w.particles_g_c
             /\ s.light1 = w.light1
             /\ s.light2 = w.light2
             /\ s.path_seg_range = w.path_seg_range
             /\ s.m_clear_glass.refraction_index = w.refraction_index
             /\ s.data = data
    /\ pc = 0 /\ hist # << >> => Snapshot = hist[Len(hist)].after

C4_Witness ==
    /\ Len(hist) = 2
    /\ hist[1].cell = hist[2].cell
    /\ hist[1].cell \in {22, 24, 26, 28, 30}
    /\ xyz_p_glass # << >>
    /\ pc = 0

\* C5 as claimed: whatever print(m_clear_glass) shows has one refraction
\* index for R, G and B.
C5_ConstantIndex ==
    \A k \in DOMAIN out :
        LET ri == out[k].text.refraction_index
        IN  ri[1] = ri[2] /\ ri[2] = ri[3]

\* C5, amended: print(m_clear_glass) shows the refraction index [1.4, 1.4,
\* 1.4] as long as cell 22 has not run, and [1.4, 1.44, 1.5] once it has.
C5_ConstantUntilCell22 ==
    \A k \in DOMAIN out :
        out[k].text.refraction_index =
            IF \E j \in Calls("update_material") : j <= out[k].at
            THEN << 140, 144, 150 >>
            ELSE << 140, 140, 140 >>

C5_Witness ==
    \E k \in DOMAIN out : out[k].text.refraction_index = << 140, 144, 150 >>

=============================================================================
